---------------------------- MODULE Spec2Model ----------------------------
(***************************************************************************)
(* Model of src/src/emulator/serialization.hpp: utils::buffer_serializer   *)
(* (the encoder) and utils::buffer_deserializer (the decoder).             *)
(*                                                                         *)
(* A byte is a number in 0..255.  A buffer is a sequence of bytes; TLA+    *)
(* sequences are 1-based, so the C++ byte buffer_[i] is buf[i + 1].        *)
(* std::optional<X> is modelled as a sequence of length 0 (nullopt) or 1.  *)
(* size_t arithmetic is done modulo SizeMod = 2^SizeBits; the model scales *)
(* the 64 bits of the build down so that the numbers fit TLC's integers.   *)
(* Trivially copyable integers are copied in the byte order of the usual   *)
(* build targets (little endian).                                          *)
(***************************************************************************)
EXTENDS Integers, Sequences, FiniteSets, TLC

VARIABLES
    buffer_,        \* buffer_serializer::buffer_ of the encoder written to
    break_offset_,  \* buffer_serializer::break_offset_ of that encoder
    other,          \* buffer_ of a second encoder (write(other), get_diff(other))
    armed,          \* history: set_break_offset(B) was last called with size <= B
    dbuf,           \* buffer_deserializer::buffer_ (the borrowed source view)
    offset_,        \* buffer_deserializer::offset_ (the cursor)
    failed,         \* history: some read on this decoder has thrown
    phase,          \* round-trip harness: "encode", "decode"
    log,            \* round-trip harness: the typed values written, in order
    got,            \* round-trip harness: the typed values read back, in order
    last            \* the last call: its name, arguments, state before it, outcome

vars == <<buffer_, break_offset_, other, armed, dbuf, offset_, failed, phase, log, got, last>>

(***************************************************************************)
(* Bounds of the model and constants of the program.                       *)
(***************************************************************************)
SizeBits == 16          \* width of size_t in the model
MaxLen == 4             \* the encoder is written to while its buffer is shorter
MaxOtherLen == 1        \* the second encoder is written to while shorter
MaxSrcLen == 3          \* longest hand-made decoder source
MaxValues == 2          \* typed values written by the round-trip harness

ByteMod == 256          \* static_cast<uint8_t>: values of one byte
CountBytes == 8         \* sizeof(uint64_t): the width of a container's count

SizeMod == 2 ^ SizeBits
SizeT(x) == x % SizeMod

None == <<>>
Some(x) == <<x>>

Zeros(n) == [i \in 1..n |-> 0]

\* C++ buf[from .. from + n), as a sequence
Slice(buf, from, n) == [i \in 1..n |-> buf[from + i]]

Min(a, b) == IF a <= b THEN a ELSE b

(***************************************************************************)
(* memcpy of a trivially copyable unsigned integer of k bytes.             *)
(***************************************************************************)
RECURSIVE ToBytes(_, _)
ToBytes(n, k) == IF k = 0 THEN <<>> ELSE <<n % ByteMod>> \o ToBytes(n \div ByteMod, k - 1)

RECURSIVE FromBytes(_)
FromBytes(b) == IF b = <<>> THEN 0 ELSE b[1] + ByteMod * FromBytes(Tail(b))

(***************************************************************************)
(* buffer_serializer.  An encoder in the middle of a call is the record    *)
(* [buffer_, break_offset_, thrown]: thrown says that an exception is      *)
(* propagating, so that the statements that follow are not executed.       *)
(***************************************************************************)
Encoder(buf, brk) == [buffer_ |-> buf, break_offset_ |-> brk, thrown |-> FALSE]

\* seeded fault: the marker byte is left out of the size the write will reach
break_reached_off_by_one(s, length) ==
    /\ s.break_offset_ # None
    /\ Len(s.buffer_) <= s.break_offset_[1]
    /\ SizeT(Len(s.buffer_) + length) > s.break_offset_[1]

\* the condition of the throw in write(const void*, size_t)
break_reached(s, length) ==
    /\ s.break_offset_ # None
    /\ Len(s.buffer_) <= s.break_offset_[1]
    /\ SizeT(Len(s.buffer_) + length + 1) > s.break_offset_[1]

\* seeded fault: the payload is appended without its marker
append_frame_no_marker(buf, data) == buf \o data

\* the two inserts of write(const void*, size_t): the marker, then the payload
append_frame(buf, data) == buf \o <<Len(data) % ByteMod>> \o data

\* void write(const void* buffer, const size_t length)
write(s, data) ==
    IF s.thrown THEN s
    ELSE IF break_reached(s, Len(data)) THEN [s EXCEPT !.thrown = TRUE]
    ELSE [s EXCEPT !.buffer_ = append_frame(s.buffer_, data)]

\* void write(const buffer_serializer& object)
write_serializer(s, object) == write(s, object)

(***************************************************************************)
(* Types and values of the typed operations.  A type is a record with a    *)
(* kind k; a value of it is a number (int of n bytes), a BOOLEAN (bool), a *)
(* sequence of character codes (string, char of 1 byte), a sequence of     *)
(* length <= 1 (optional), a sequence (vector, list) or a function from    *)
(* keys to values (std::map, which iterates in ascending key order).       *)
(***************************************************************************)
TInt(n) == [k |-> "int", n |-> n]
TBool == [k |-> "bool"]
TString == [k |-> "string"]
TOptional(e) == [k |-> "optional", e |-> e]
TVector(e) == [k |-> "vector", e |-> e]
TList(e) == [k |-> "list", e |-> e]
TMap(key, val) == [k |-> "map", key |-> key, val |-> val]

\* the keys of a std::map in its iteration order
RECURSIVE map_order(_)
map_order(keys) ==
    IF keys = {} THEN <<>>
    ELSE LET m == CHOOSE x \in keys : \A y \in keys : x <= y
         IN  <<m>> \o map_order(keys \ {m})

RECURSIVE write_T(_, _, _)
RECURSIVE write_each(_, _, _)

\* for (const auto& v : vec) this->write(v);
write_each(s, ty, vec) ==
    IF vec = <<>> THEN s
    ELSE write_each(write_T(s, ty, Head(vec)), ty, Tail(vec))

\* void write_span(const std::span<T> vec)
write_span(s, ty, vec) ==
    write_each(write(s, ToBytes(Len(vec), CountBytes)), ty, vec)

\* void write_vector(const std::vector<T>& vec)
write_vector(s, ty, vec) == write_span(s, ty, vec)

\* void write_list(const std::list<T>& vec)
write_list(s, ty, vec) ==
    write_each(write(s, ToBytes(Len(vec), CountBytes)), ty, vec)

\* void write_string(const std::basic_string_view<T> str), T = char
write_string(s, str) == write_span(s, TInt(1), str)

\* template <> void buffer_serializer::write<bool>(const bool& object)
write_bool(s, object) == write(s, ToBytes(IF object THEN 1 ELSE 0, 1))

\* void write(const T& object): bool and std::string are specialised, an
\* integer is trivially copyable
write_T(s, ty, object) ==
    CASE ty.k = "bool" -> write_bool(s, object)
      [] ty.k = "string" -> write_string(s, object)
      [] ty.k = "int" -> write(s, ToBytes(object, ty.n))

\* void write_optional(const std::optional<T>& val)
write_optional(s, ty, val) ==
    LET s1 == write_bool(s, val # None)
    IN  IF val # None THEN write_T(s1, ty, val[1]) ELSE s1

RECURSIVE write_entries(_, _, _, _, _)
\* for (const auto& entry : map) { write(entry.first); write(entry.second); }
write_entries(s, kty, vty, map, keys) ==
    IF keys = <<>> THEN s
    ELSE write_entries(write_T(write_T(s, kty, Head(keys)), vty, map[Head(keys)]),
                       kty, vty, map, Tail(keys))

\* void write_map(const Map& map)
write_map(s, kty, vty, map) ==
    write_entries(write(s, ToBytes(Cardinality(DOMAIN map), CountBytes)),
                  kty, vty, map, map_order(DOMAIN map))

\* the typed write / write_* operation that a caller uses for a value of type ty
write_value(s, ty, v) ==
    CASE ty.k = "optional" -> write_optional(s, ty.e, v)
      [] ty.k = "vector" -> write_vector(s, ty.e, v)
      [] ty.k = "list" -> write_list(s, ty.e, v)
      [] ty.k = "map" -> write_map(s, ty.key, ty.val, v)
      [] OTHER -> write_T(s, ty, v)

\* the least element of a nonempty set of numbers
Least(S) == CHOOSE i \in S : \A j \in S : i <= j

\* the offsets at which the loop of get_diff finds b1.at(i) != b2.at(i)
differing(b1, b2) == {i \in 0..(Min(Len(b1), Len(b2)) - 1) : b1[i + 1] # b2[i + 1]}

\* seeded fault: the sizes are not compared after the loop
get_diff_no_length(b1, b2) ==
    IF differing(b1, b2) # {} THEN Some(Least(differing(b1, b2))) ELSE None

\* std::optional<size_t> get_diff(const buffer_serializer& other) const: the
\* loop returns at the first offset that differs
get_diff(b1, b2) ==
    IF differing(b1, b2) # {} THEN Some(Least(differing(b1, b2)))
    ELSE IF Len(b1) # Len(b2) THEN Some(Min(Len(b1), Len(b2)))
    ELSE None

(***************************************************************************)
(* buffer_deserializer.  A decoder in the middle of a call is the record   *)
(* [buffer_, offset_, status, span, val]: status is "ok" or names the      *)
(* exception that is propagating ("bounds": "Out of bounds read from byte  *)
(* buffer"; "framing": "Reading from serialized buffer mismatches written  *)
(* data!"), span is the last view read_data returned (data: its first      *)
(* index in buffer_, size: its length) and val is the object being read.   *)
(***************************************************************************)
NoSpan == [data |-> 0, size |-> 0]

Decoder(buf, off) ==
    [buffer_ |-> buf, offset_ |-> off, status |-> "ok", span |-> NoSpan, val |-> <<>>]

\* this->buffer_[this->offset_]; outside the view the read is undefined and
\* yields ub, a byte the caller of the model picks
marker_at(d, ub) ==
    IF d.offset_ < Len(d.buffer_) THEN d.buffer_[d.offset_ + 1] ELSE ub

\* the first condition of read_data, in size_t
out_of_bounds(d, length) ==
    SizeT(d.offset_ + SizeT(length + 1)) > Len(d.buffer_)

\* seeded fault: the marker is compared before the size is checked
read_data_check_marker_first(d, length, ub) ==
    IF marker_at(d, ub) # length % ByteMod THEN "framing"
    ELSE IF out_of_bounds(d, length) THEN "bounds"
    ELSE "ok"

\* the two checks of read_data, in their order
read_data_check(d, length, ub) ==
    IF out_of_bounds(d, length) THEN "bounds"
    ELSE IF marker_at(d, ub) # length % ByteMod THEN "framing"
    ELSE "ok"

\* seeded fault: the cursor is not moved past the marker
advance_no_marker(d, length) ==
    [d EXCEPT !.span = [data |-> d.offset_, size |-> length],
              !.offset_ = SizeT(d.offset_ + length)]

\* the two increments of offset_ in read_data and the span between them
advance(d, length) ==
    [d EXCEPT !.span = [data |-> SizeT(d.offset_ + 1), size |-> length],
              !.offset_ = SizeT(SizeT(d.offset_ + 1) + length)]

\* seeded fault: the marker is consumed before the mismatch is reported
thrown_from_marker_consumed(d, status) ==
    [d EXCEPT !.status = status,
              !.offset_ = IF status = "framing" THEN SizeT(d.offset_ + 1) ELSE d.offset_]

\* what read_data leaves behind when it throws
thrown_from(d, status) == [d EXCEPT !.status = status]

\* std::span<const std::byte> read_data(const size_t length)
read_data(d, length, ub) ==
    IF d.status # "ok" THEN d
    ELSE LET c == read_data_check(d, length, ub)
         IN  IF c # "ok" THEN thrown_from(d, c) ELSE advance(d, length)

\* void read(void* data, const size_t length): the bytes memcpy copies
copied(d) == Slice(d.buffer_, d.span.data, d.span.size)

\* size_t get_remaining_size() const
get_remaining_size(d) == SizeT(Len(d.buffer_) - d.offset_)

\* std::span<const std::byte> get_remaining_data()
get_remaining_data(d, ub) == read_data(d, get_remaining_size(d), ub)

\* size_t get_offset() const
get_offset(d) == d.offset_

(***************************************************************************)
(* The typed reads.  Their lengths are sizeof(T), so length + 1 does not   *)
(* wrap and the marker read is inside the view once the bounds check has   *)
(* passed: the undefined byte is never used (they pass 0).                 *)
(***************************************************************************)
\* void read(T& object) of a trivially copyable unsigned integer of n bytes
read_int(d, n) ==
    LET r == read_data(d, n, 0)
    IN  IF r.status # "ok" THEN r ELSE [r EXCEPT !.val = FromBytes(copied(r))]

\* template <> void buffer_deserializer::read<bool>(bool& object)
read_bool(d) ==
    LET r == read_int(d, 1)
    IN  IF r.status # "ok" THEN r ELSE [r EXCEPT !.val = (r.val # 0)]

RECURSIVE read_T(_, _)
RECURSIVE read_each(_, _, _, _)

\* for (uint64_t i = 0; i < size; ++i) result.emplace_back(this->read<T>());
\* n iterations are left and result holds acc
read_each(d, ty, n, acc) ==
    IF n = 0 THEN [d EXCEPT !.val = acc]
    ELSE LET e == read_T(d, ty)
         IN  IF e.status # "ok" THEN [e EXCEPT !.val = acc]
             ELSE read_each(e, ty, n - 1, Append(acc, e.val))

\* void read_string(std::basic_string<T>& result), T = char; d.val is result
read_string(d) ==
    LET size == read_int(d, CountBytes)
    IN  IF size.status # "ok" THEN [size EXCEPT !.val = d.val]
        ELSE read_each(size, TInt(1), size.val, <<>>)

\* T read(): construct_object (a default-constructed T), then read(object)
read_T(d, ty) ==
    CASE ty.k = "bool" -> read_bool(d)
      [] ty.k = "string" -> read_string([d EXCEPT !.val = <<>>])
      [] ty.k = "int" -> read_int(d, ty.n)

\* void read_optional(std::optional<T>& val); d.val is val
read_optional(d, ty) ==
    LET has == read_bool(d)
    IN  IF has.status # "ok" THEN [has EXCEPT !.val = d.val]
        ELSE IF has.val
        THEN LET e == read_T(has, ty)
             IN  IF e.status # "ok" THEN [e EXCEPT !.val = d.val]
                 ELSE [e EXCEPT !.val = Some(e.val)]
        ELSE [has EXCEPT !.val = None]

\* seeded fault: result.clear() is left out
read_vector_no_clear(d, ty) ==
    LET size == read_int(d, CountBytes)
    IN  IF size.status # "ok" THEN [size EXCEPT !.val = d.val]
        ELSE read_each(size, ty, size.val, d.val)

\* void read_vector(std::vector<T>& result); d.val is result
read_vector(d, ty) ==
    LET size == read_int(d, CountBytes)
    IN  IF size.status # "ok" THEN [size EXCEPT !.val = d.val]
        ELSE read_each(size, ty, size.val, <<>>)

\* void read_list(std::list<T>& result); d.val is result
read_list(d, ty) ==
    LET size == read_int(d, CountBytes)
    IN  IF size.status # "ok" THEN [size EXCEPT !.val = d.val]
        ELSE read_each(size, ty, size.val, <<>>)

\* map.emplace(std::move(key), std::move(value)): an existing key is kept
emplace(map, key, value) ==
    IF key \in DOMAIN map THEN map
    ELSE [x \in DOMAIN map \cup {key} |-> IF x = key THEN value ELSE map[x]]

RECURSIVE read_entries(_, _, _, _, _)
\* the loop of read_map: n iterations are left and map holds acc
read_entries(d, kty, vty, n, acc) ==
    IF n = 0 THEN [d EXCEPT !.val = acc]
    ELSE LET key == read_T(d, kty)
             value == read_T(key, vty)
         IN  IF value.status # "ok" THEN [value EXCEPT !.val = acc]
             ELSE read_entries(value, kty, vty, n - 1, emplace(acc, key.val, value.val))

\* void read_map(Map& map); d.val is map, cleared before the count is read
read_map(d, kty, vty) ==
    LET size == read_int(d, CountBytes)
    IN  IF size.status # "ok" THEN [size EXCEPT !.val = <<>>]
        ELSE read_entries(size, kty, vty, size.val, <<>>)

\* the typed read / read_* operation that mirrors write_value; dest is the
\* object the caller passes in
read_value(d, ty, dest) ==
    CASE ty.k = "optional" -> read_optional([d EXCEPT !.val = dest], ty.e)
      [] ty.k = "vector" -> read_vector([d EXCEPT !.val = dest], ty.e)
      [] ty.k = "list" -> read_list([d EXCEPT !.val = dest], ty.e)
      [] ty.k = "map" -> read_map([d EXCEPT !.val = dest], ty.key, ty.val)
      [] OTHER -> read_T(d, ty)

(***************************************************************************)
(* Specification Spec: an encoder that is written to, with a break offset  *)
(* that may be set at any time, and a second encoder that is embedded in   *)
(* it and compared with it.                                                *)
(***************************************************************************)
Str(chars) == [ty |-> TString, v |-> chars]

\* "abc" and "abd"
StrAbc == Str(<<97, 98, 99>>)
StrAbd == Str(<<97, 98, 100>>)

\* the byte runs given to write(const void*, size_t)
DataSample == {<<>>, <<7>>, <<1, 2>>, Zeros(ByteMod)}

\* the typed values written in Spec
EncValues ==
    {StrAbc, StrAbd, [ty |-> TBool, v |-> TRUE], [ty |-> TOptional(TInt(2)), v |-> Some(7)]}

\* the arguments of set_break_offset
BreakSample == {0, 2, 3, 5, 10}

Idle == [op |-> "init"]

InitCommon ==
    /\ buffer_ = <<>>
    /\ break_offset_ = None
    /\ other = <<>>
    /\ armed = FALSE
    /\ dbuf = <<>>
    /\ offset_ = 0
    /\ failed = FALSE
    /\ phase = "encode"
    /\ log = <<>>
    /\ got = <<>>
    /\ last = Idle

Init == InitCommon

DecoderUnchanged == UNCHANGED <<dbuf, offset_, failed, phase, log, got>>

\* serializer.write(data.data(), data.size())
Write(data) ==
    /\ Len(buffer_) < MaxLen
    /\ LET s == write(Encoder(buffer_, break_offset_), data)
       IN  /\ buffer_' = s.buffer_
           /\ last' = [op |-> "write", data |-> data, pre |-> buffer_, thrown |-> s.thrown]
    /\ UNCHANGED <<break_offset_, other, armed>>
    /\ DecoderUnchanged

\* serializer.write(other)
WriteSerializer ==
    /\ Len(buffer_) < MaxLen
    /\ LET s == write_serializer(Encoder(buffer_, break_offset_), other)
       IN  /\ buffer_' = s.buffer_
           /\ last' = [op |-> "write_serializer", pre |-> buffer_, thrown |-> s.thrown]
    /\ UNCHANGED <<break_offset_, other, armed>>
    /\ DecoderUnchanged

\* serializer.write(v), write_optional(v), write_vector(v), ...
WriteValue(tv) ==
    /\ Len(buffer_) < MaxLen
    /\ LET s == write_value(Encoder(buffer_, break_offset_), tv.ty, tv.v)
       IN  /\ buffer_' = s.buffer_
           /\ last' = [op |-> "write_value", ty |-> tv.ty, v |-> tv.v, pre |-> buffer_,
                       thrown |-> s.thrown]
    /\ UNCHANGED <<break_offset_, other, armed>>
    /\ DecoderUnchanged

\* other.write(data.data(), data.size()); no break offset is set on other
OtherWrite(data) ==
    /\ Len(other) < MaxOtherLen
    /\ other' = write(Encoder(other, None), data).buffer_
    /\ last' = [op |-> "other_write"]
    /\ UNCHANGED <<buffer_, break_offset_, armed>>
    /\ DecoderUnchanged

\* other.write(v), ...
OtherWriteValue(tv) ==
    /\ Len(other) < MaxOtherLen
    /\ other' = write_value(Encoder(other, None), tv.ty, tv.v).buffer_
    /\ last' = [op |-> "other_write"]
    /\ UNCHANGED <<buffer_, break_offset_, armed>>
    /\ DecoderUnchanged

\* void set_break_offset(const size_t break_offset)
SetBreakOffset(B) ==
    /\ break_offset_' = Some(B)
    /\ armed' = (Len(buffer_) <= B)
    /\ last' = [op |-> "set_break_offset"]
    /\ UNCHANGED <<buffer_, other>>
    /\ DecoderUnchanged

\* serializer.get_diff(other)
GetDiff ==
    /\ last' = [op |-> "get_diff", ret |-> get_diff(buffer_, other)]
    /\ UNCHANGED <<buffer_, break_offset_, other, armed>>
    /\ DecoderUnchanged

Next ==
    \/ \E data \in DataSample : Write(data)
    \/ WriteSerializer
    \/ \E tv \in EncValues : WriteValue(tv)
    \/ \E data \in DataSample : OtherWrite(data)
    \/ \E tv \in EncValues : OtherWriteValue(tv)
    \/ \E B \in BreakSample : SetBreakOffset(B)
    \/ GetDiff

Spec == Init /\ [][Next]_vars

(***************************************************************************)
(* Specification SpecDec: a decoder constructed over a byte sequence of    *)
(* the caller (buffer_deserializer(const std::span<T>)): any bytes, among  *)
(* them what an encoder wrote, whole, truncated or with a byte altered.    *)
(***************************************************************************)
\* the bytes of the hand-made sources
SrcBytes == {0, 1, 2, 254, 255}

\* the values tried for a marker read outside the view (undefined behaviour)
UBBytes == {0, 255}

\* the sequences over S of length n or less
SeqsUpTo(S, n) == UNION {[1..k -> S] : k \in 0..n}

Prefixes(b) == {SubSeq(b, 1, k) : k \in 0..Len(b)}

DecSources ==
    SeqsUpTo(SrcBytes, MaxSrcLen)
        \cup Prefixes(write_value(Encoder(<<>>, None), StrAbc.ty, StrAbc.v).buffer_)

\* the lengths given to read_data
LengthSample == {0, 1, 2, 3, ByteMod + 1, SizeMod - 2, SizeMod - 1}

\* the types read with the typed operations in SpecDec
DecTypes == {TBool, TInt(2), TString, TOptional(TInt(1)), TVector(TInt(1))}

InitDec ==
    /\ buffer_ = <<>>
    /\ break_offset_ = None
    /\ other = <<>>
    /\ armed = FALSE
    /\ dbuf \in DecSources
    /\ offset_ = 0
    /\ failed = FALSE
    /\ phase = "decode"
    /\ log = <<>>
    /\ got = <<>>
    /\ last = Idle

EncoderUnchanged == UNCHANGED <<buffer_, break_offset_, other, armed, phase, log, got>>

\* deserializer.read_data(length)
ReadData(length, ub) ==
    /\ LET d == read_data(Decoder(dbuf, offset_), length, ub)
       IN  /\ offset_' = d.offset_
           /\ failed' = (failed \/ d.status # "ok")
           /\ last' = [op |-> "read_data", length |-> length, at |-> offset_,
                       status |-> d.status, span |-> d.span]
    /\ UNCHANGED dbuf
    /\ EncoderUnchanged

\* deserializer.get_remaining_data()
GetRemainingData(ub) ==
    /\ LET d == get_remaining_data(Decoder(dbuf, offset_), ub)
       IN  /\ offset_' = d.offset_
           /\ failed' = (failed \/ d.status # "ok")
           /\ last' = [op |-> "get_remaining_data", at |-> offset_, status |-> d.status,
                       span |-> d.span]
    /\ UNCHANGED dbuf
    /\ EncoderUnchanged

\* deserializer.read<T>(), read_optional(val), read_vector(result), ...
ReadValue(ty) ==
    /\ LET d == read_value(Decoder(dbuf, offset_), ty, <<>>)
       IN  /\ offset_' = d.offset_
           /\ failed' = (failed \/ d.status # "ok")
           /\ last' = [op |-> "read_value", ty |-> ty, at |-> offset_, status |-> d.status,
                       val |-> d.val]
    /\ UNCHANGED dbuf
    /\ EncoderUnchanged

\* deserializer.get_offset()
GetOffset ==
    /\ last' = [op |-> "get_offset", at |-> offset_,
                ret |-> get_offset(Decoder(dbuf, offset_))]
    /\ UNCHANGED <<dbuf, offset_, failed>>
    /\ EncoderUnchanged

\* deserializer.get_remaining_size()
GetRemainingSize ==
    /\ last' = [op |-> "get_remaining_size", at |-> offset_,
                ret |-> get_remaining_size(Decoder(dbuf, offset_))]
    /\ UNCHANGED <<dbuf, offset_, failed>>
    /\ EncoderUnchanged

NextDec ==
    \/ \E length \in LengthSample, ub \in UBBytes : ReadData(length, ub)
    \/ \E ub \in UBBytes : GetRemainingData(ub)
    \/ \E ty \in DecTypes : ReadValue(ty)
    \/ GetOffset
    \/ GetRemainingSize

SpecDec == InitDec /\ [][NextDec]_vars

(***************************************************************************)
(* Specification SpecRT: a caller writes typed values to an encoder (no    *)
(* break offset), constructs a decoder over the encoder's buffer           *)
(* (buffer_deserializer(const buffer_serializer&)) and reads the values    *)
(* back with the mirrored operations, in the same order.                   *)
(***************************************************************************)
Val(ty, v) == [ty |-> ty, v |-> v]

\* the function with the given pairs <<key, value>>: a std::map
MapOf(pairs) ==
    [key \in {p[1] : p \in pairs} |-> (CHOOSE p \in pairs : p[1] = key)[2]]

\* the typed values written and read back
RTValues ==
    {Val(TBool, TRUE), Val(TBool, FALSE),
     Val(TInt(1), 0), Val(TInt(1), 255),
     Val(TInt(2), 258),
     Val(TInt(4), 16909060),
     Val(TInt(8), 65536),
     Str(<<>>), StrAbc,
     Val(TOptional(TInt(4)), None), Val(TOptional(TInt(4)), Some(7)),
     Val(TOptional(TString), Some(<<97>>)),
     Val(TVector(TInt(2)), <<>>), Val(TVector(TInt(2)), <<513, 1, 513>>),
     Val(TVector(TString), <<<<98, 97>>, <<>>>>),
     Val(TList(TBool), <<TRUE, FALSE>>),
     Val(TMap(TInt(1), TInt(2)), MapOf({})),
     Val(TMap(TInt(1), TInt(2)), MapOf({<<2, 7>>, <<1, 300>>})),
     Val(TMap(TInt(2), TString), MapOf({<<256, <<97>>>>, <<3, <<>>>>}))}

\* a value of an element type, for what a destination holds before a read
Junk(ty) ==
    CASE ty.k = "bool" -> TRUE
      [] ty.k = "string" -> <<120>>
      [] ty.k = "int" -> 9

\* what the object passed to a read operation may hold before the call
Destinations(ty) ==
    CASE ty.k = "optional" -> {None, Some(Junk(ty.e))}
      [] ty.k \in {"vector", "list"} -> {<<>>, <<Junk(ty.e)>>}
      [] ty.k = "map" -> {MapOf({}), MapOf({<<1, Junk(ty.val)>>, <<5, Junk(ty.val)>>})}
      [] OTHER -> {<<>>}

InitRT == InitCommon

\* serializer.write(v), write_optional(v), write_vector(v), write_map(v), ...
RTWrite(tv) ==
    /\ phase = "encode"
    /\ Len(log) < MaxValues
    /\ LET s == write_value(Encoder(buffer_, break_offset_), tv.ty, tv.v)
       IN  /\ buffer_' = s.buffer_
           /\ last' = [op |-> "write_value", ty |-> tv.ty, v |-> tv.v, pre |-> buffer_,
                       thrown |-> s.thrown]
    /\ log' = Append(log, tv)
    /\ UNCHANGED <<break_offset_, other, armed, dbuf, offset_, failed, phase, got>>

\* buffer_deserializer deserializer(serializer)
RTConstruct ==
    /\ phase = "encode"
    /\ phase' = "decode"
    /\ dbuf' = buffer_
    /\ offset_' = 0
    /\ last' = [op |-> "construct"]
    /\ UNCHANGED <<buffer_, break_offset_, other, armed, failed, log, got>>

\* deserializer.read<T>(), read_optional(dest), read_vector(dest), ...: the
\* type is that of the next value written
RTReadInto(ty, dest) ==
    LET d == read_value(Decoder(dbuf, offset_), ty, dest)
    IN  /\ offset_' = d.offset_
        /\ failed' = (failed \/ d.status # "ok")
        /\ got' = Append(got, [status |-> d.status, val |-> d.val])
        /\ last' = [op |-> "read_value", ty |-> ty, at |-> offset_, dest |-> dest,
                    status |-> d.status, val |-> d.val]

RTRead ==
    /\ phase = "decode"
    /\ Len(got) < Len(log)
    /\ \E dest \in Destinations(log[Len(got) + 1].ty) :
          RTReadInto(log[Len(got) + 1].ty, dest)
    /\ UNCHANGED <<buffer_, break_offset_, other, armed, dbuf, phase, log>>

NextRT ==
    \/ \E tv \in RTValues : RTWrite(tv)
    \/ RTConstruct
    \/ RTRead

SpecRT == InitRT /\ [][NextRT]_vars

(***************************************************************************)
(* Claims checked under Spec.                                              *)
(***************************************************************************)
\* one frame: the marker byte, then the payload
Frame(data) == <<Len(data) % ByteMod>> \o data

\* C2: with break offset B set, a primitive write that starts at or below B
\* and would end past B throws and leaves the buffer as it was; a write that
\* ends at or below B succeeds and appends its frame; and once
\* set_break_offset(B) was called on a buffer of size <= B, the size never
\* exceeds B, whatever is written (primitive, typed or embedded).
C2_BreakOffset ==
    /\ (last.op = "write" /\ break_offset_ # None) =>
          LET B == break_offset_[1]
              before == Len(last.pre)
              after == before + 1 + Len(last.data)
          IN  /\ (before <= B /\ after > B) => (last.thrown /\ buffer_ = last.pre)
              /\ after <= B => (~last.thrown /\ buffer_ = last.pre \o Frame(last.data))
    /\ armed => Len(buffer_) <= break_offset_[1]

\* C2 witness: a primitive write on a nonempty buffer was refused by the break
\* offset, set while the buffer was within it
C2_Witness ==
    /\ last.op = "write"
    /\ last.thrown
    /\ armed
    /\ last.pre # <<>>
    /\ Len(last.pre) + 1 + Len(last.data) = break_offset_[1] + 1

\* C5 as stated: write(other) appends exactly the bytes of other's buffer
C5_Verbatim ==
    last.op = "write_serializer" =>
        /\ buffer_ = last.pre \o other
        /\ Len(buffer_) = Len(last.pre) + Len(other)

\* C5 as amended: write(other) appends other's buffer as one frame: unless the
\* break offset refuses the write (the buffer is then unchanged), the buffer
\* is the previous buffer, then one marker byte equal to other's size mod
\* 256, then other's bytes; the size grows by other's size plus one.
C5_Framed ==
    last.op = "write_serializer" =>
        IF last.thrown THEN buffer_ = last.pre
        ELSE /\ buffer_ = last.pre \o <<Len(other) % ByteMod>> \o other
             /\ Len(buffer_) = Len(last.pre) + 1 + Len(other)

\* C5 witness: a second encoder of 256 bytes or more was embedded after
\* earlier content
C5_Witness ==
    /\ last.op = "write_serializer"
    /\ ~last.thrown
    /\ last.pre # <<>>
    /\ Len(other) >= ByteMod

\* C6: get_diff returns the smallest offset below both sizes at which the
\* buffers differ, if there is one; otherwise the smaller size if the sizes
\* differ; and nullopt exactly when the buffers are equal.  Swapping the two
\* encoders gives the same result.  For "abc" and "abd" it is the offset of
\* the payload byte of the last character.
C6_GetDiff ==
    last.op = "get_diff" =>
        LET r == last.ret
            m == Min(Len(buffer_), Len(other))
            same(i) == buffer_[i + 1] = other[i + 1]
        IN  /\ (r = None) <=> (buffer_ = other)
            /\ r # None =>
                  /\ r[1] <= m
                  /\ \A j \in 0..(r[1] - 1) : same(j)
                  /\ r[1] < m => ~same(r[1])
                  /\ r[1] = m => Len(buffer_) # Len(other)
            /\ get_diff(other, buffer_) = r
            /\ (buffer_ = write_value(Encoder(<<>>, None), StrAbc.ty, StrAbc.v).buffer_
                /\ other = write_value(Encoder(<<>>, None), StrAbd.ty, StrAbd.v).buffer_)
                  => r = Some(Len(buffer_) - 1)

\* C6 witness: get_diff of the encodings of "abc" and "abd" returned offset 14
C6_Witness ==
    /\ last.op = "get_diff"
    /\ last.ret = Some(14)
    /\ Len(buffer_) = 15
    /\ Len(other) = 15
    /\ buffer_[15] = 99
    /\ other[15] = 100

\* C6 second case reached: one buffer is a strict prefix of the other
C6_PrefixReached ==
    /\ last.op = "get_diff"
    /\ last.ret = Some(Len(other))
    /\ other # <<>>
    /\ Len(buffer_) > Len(other)

(***************************************************************************)
(* Claims checked under SpecDec.                                           *)
(***************************************************************************)
\* the last call was read_data, from a cursor inside the source
ReadDataInside == last.op = "read_data" /\ last.at < Len(dbuf)

\* the byte at the cursor differs from length mod 256
MarkerDiffers == dbuf[last.at + 1] # last.length % ByteMod

\* C3 as stated: the marker is validated first, so a marker that differs
\* always gives FramingCorruptionError, and BoundsError is raised only when
\* the marker matches.
C3_MarkerFirst ==
    ReadDataInside =>
        /\ MarkerDiffers => last.status = "framing"
        /\ last.status = "bounds" => ~MarkerDiffers

\* C3 as amended: read_data validates the remaining size first and the marker
\* second.  It fails with BoundsError whenever cursor + length + 1, as
\* computed in size_t, exceeds the source size, whatever the byte at the
\* cursor; it fails with FramingCorruptionError exactly when that size check
\* passes and the byte at the cursor differs from length mod 256.  So a
\* marker altered in an otherwise intact frame gives FramingCorruptionError
\* and a source truncated below the declared payload gives BoundsError.
C3_BoundsFirst ==
    ReadDataInside =>
        LET exact == last.at + 1 + last.length
            sized == (last.at + ((last.length + 1) % SizeMod)) % SizeMod
        IN  /\ sized > Len(dbuf) => last.status = "bounds"
            /\ last.status = "framing" <=> (sized <= Len(dbuf) /\ MarkerDiffers)
            /\ (exact <= Len(dbuf) /\ MarkerDiffers) => last.status = "framing"
            /\ (exact > Len(dbuf) /\ exact < SizeMod) => last.status = "bounds"

\* C3 witness: a read_data whose marker differs and whose payload does not
\* fit either has failed with the bounds error
C3_Witness ==
    /\ ReadDataInside
    /\ MarkerDiffers
    /\ last.at > 0
    /\ last.at + 1 + last.length > Len(dbuf)
    /\ last.status = "bounds"

\* C3, the two cases it names: an altered marker on an intact frame, and a
\* truncated payload under a matching marker
C3_CasesReached ==
    \/ /\ ReadDataInside
       /\ MarkerDiffers
       /\ last.length > 0
       /\ last.at + 1 + last.length <= Len(dbuf)
       /\ last.status = "framing"
    \/ /\ ReadDataInside
       /\ ~MarkerDiffers
       /\ last.length >= ByteMod
       /\ last.status = "bounds"

\* C4: get_remaining_data returns the view source[c..n), of
\* get_remaining_size() bytes, without raising an error.
C4_RemainingData ==
    last.op = "get_remaining_data" =>
        /\ last.status = "ok"
        /\ last.span = [data |-> last.at, size |-> Len(dbuf) - last.at]

\* C7: a successful read_data(length) from cursor c moves the cursor to
\* c + 1 + length and returns source[c+1 .. c+1+length); no operation moves
\* the cursor back; get_offset() + get_remaining_size() is the source size.
\* (Stated for a read_data from a cursor inside the source, where the marker
\* read is defined.)
C7_Cursor ==
    /\ (ReadDataInside /\ last.status = "ok") =>
          /\ offset_ = last.at + 1 + last.length
          /\ last.span = [data |-> last.at + 1, size |-> last.length]
    /\ last.op # "init" => offset_ >= last.at
    /\ get_offset(Decoder(dbuf, offset_)) + get_remaining_size(Decoder(dbuf, offset_))
          = Len(dbuf)

\* C7, the part of it that no wrap-around touches: a read_data that succeeds
\* with cursor + 1 + length below 2^w moves the cursor exactly there
C7_NoWrapPart ==
    (ReadDataInside /\ last.status = "ok" /\ last.at + 1 + last.length < SizeMod) =>
        /\ offset_ = last.at + 1 + last.length
        /\ last.span = [data |-> last.at + 1, size |-> last.length]

\* the last call was a read that succeeded (a read_data of bytes that are
\* all inside the source)
ReadSucceeded ==
    /\ last.op \in {"read_data", "get_remaining_data", "read_value"}
    /\ last.status = "ok"
    /\ last.op = "read_data" => last.at + 1 + last.length <= Len(dbuf)

\* C8 as stated: once a read has failed, no later read on the decoder succeeds
C8_Terminal == failed => ~ReadSucceeded

\* C8 as amended: the decoder has no Failed state.  A read_data or
\* get_remaining_data that fails validation leaves the cursor where it was
\* (the source is never changed), and a later read_data on the same decoder
\* succeeds whenever its own size and marker checks pass, whether or not an
\* earlier read failed.
C8_FailureKeepsCursor ==
    /\ (last.op \in {"read_data", "get_remaining_data"} /\ last.status # "ok") =>
          offset_ = last.at
    /\ (ReadDataInside /\ last.at + 1 + last.length <= Len(dbuf) /\ ~MarkerDiffers) =>
          last.status = "ok"

\* C8 witness: a read_data succeeded, past the start of the source, on a
\* decoder on which a read had failed
C8_Witness ==
    /\ failed
    /\ ReadSucceeded
    /\ last.op = "read_data"
    /\ last.at > 0
    /\ last.length > 0

\* C10: a read_data that succeeds returns a view inside the source
\* (c + 1 + length <= size, without wrap-around) and leaves the cursor within
\* the source; a length with which offset + length + 1 wraps around is
\* refused rather than accepted.  (Stated for a cursor inside the source, where
\* the marker read is defined.)
C10_BoundsSafe ==
    /\ offset_ <= Len(dbuf)
    /\ ReadDataInside =>
          /\ last.status = "ok" => last.at + 1 + last.length <= Len(dbuf)
          /\ last.at + 1 + last.length >= SizeMod => last.status # "ok"

\* C10, the part the code keeps: the cursor never exceeds the source size
C10_CursorWithin == offset_ <= Len(dbuf)

(***************************************************************************)
(* Claims checked under SpecRT.                                            *)
(***************************************************************************)
\* C1: the values read back with the mirrored operations are the values
\* written, in order, and no read raises an error; when all are read the
\* decoder has consumed the whole buffer.
C1_RoundTrip ==
    /\ \A i \in 1..Len(got) : got[i].status = "ok" /\ got[i].val = log[i].v
    /\ ~failed
    /\ (phase = "decode" /\ Len(got) = Len(log)) => offset_ = Len(dbuf)

\* C1 witness: two values were written and read back, the second one a map
\* with two entries read into a map that held other entries
C1_Witness ==
    /\ phase = "decode"
    /\ Len(got) = 2
    /\ Len(log) = 2
    /\ log[1].ty.k = "optional"
    /\ log[1].v # None
    /\ log[2].ty.k = "map"
    /\ Cardinality(DOMAIN log[2].v) = 2
    /\ last.dest # <<>>
    /\ got[2].val = log[2].v

\* the concatenation of a sequence of byte sequences
RECURSIVE Flat(_)
Flat(seqs) == IF seqs = <<>> THEN <<>> ELSE Head(seqs) \o Flat(Tail(seqs))

\* the frames of one element: bool, integer of n bytes, string
ElemBytes(ty, v) ==
    CASE ty.k = "bool" -> Frame(<<IF v THEN 1 ELSE 0>>)
      [] ty.k = "int" -> Frame(ToBytes(v, ty.n))
      [] ty.k = "string" ->
            Frame(ToBytes(Len(v), CountBytes)) \o Flat([i \in 1..Len(v) |-> Frame(<<v[i]>>)])

\* the entries of a container in its iteration order, each as its frames
EntryBytes(ty, v) ==
    IF ty.k = "map"
    THEN LET keys == map_order(DOMAIN v)
         IN  [i \in 1..Len(keys) |->
                 ElemBytes(ty.key, keys[i]) \o ElemBytes(ty.val, v[keys[i]])]
    ELSE [i \in 1..Len(v) |-> ElemBytes(ty.e, v[i])]

Containers == {"vector", "list", "map"}

EntryCount(ty, v) == IF ty.k = "map" THEN Cardinality(DOMAIN v) ELSE Len(v)

\* C9: writing a container of N entries appends one count frame (marker 8,
\* the 8 bytes of N) and then the N entries in iteration order; reading it
\* back gives exactly those N entries (a sequence in the encoded order),
\* whatever the destination held before the call.
C9_CountPrefixed ==
    /\ (last.op = "write_value" /\ last.ty.k \in Containers) =>
          LET N == EntryCount(last.ty, last.v)
          IN  /\ buffer_ = last.pre \o <<CountBytes>> \o ToBytes(N, CountBytes)
                               \o Flat(EntryBytes(last.ty, last.v))
              /\ Len(EntryBytes(last.ty, last.v)) = N
    /\ (last.op = "read_value" /\ last.ty.k \in Containers) =>
          /\ last.status = "ok"
          /\ last.val = log[Len(got)].v
          /\ EntryCount(last.ty, last.val) = EntryCount(last.ty, log[Len(got)].v)

\* C9 witness: a vector of three elements was read into a vector that held
\* an element
C9_Witness ==
    /\ last.op = "read_value"
    /\ last.ty.k = "vector"
    /\ last.dest # <<>>
    /\ Len(last.val) = 3
    /\ last.at > 0

\* C9, the other containers reached: a map of two entries written after
\* other content, and a list read into a list that held an element
C9_OthersReached ==
    \/ /\ last.op = "write_value"
       /\ last.ty.k = "map"
       /\ last.pre # <<>>
       /\ Cardinality(DOMAIN last.v) = 2
    \/ /\ last.op = "read_value"
       /\ last.ty.k = "list"
       /\ last.dest # <<>>

====
